---- MODULE Spec2Model ----
(***************************************************************************)
(* Model of the bestfriends gallery server (cmd/app/main.go): the profile  *)
(* store (tables profiles and votes), the vote handler running inside      *)
(* withTx at serializable isolation, the image ingestion pipeline behind   *)
(* handleCreateProfile, and the listing query built by handleHome.         *)
(*                                                                         *)
(* Time is counted in minutes.  The store is modelled as an optimistic     *)
(* serializable store: a transaction works on the snapshot taken at        *)
(* BeginTx and its commit fails with a serialization error when a key it   *)
(* touched was written by a transaction that committed in between.         *)
(***************************************************************************)
EXTENDS Integers, Sequences, FiniteSets, TLC

\* ------------------------------------------------------------------------
\* Bounds of the model
\* ------------------------------------------------------------------------
MaxProfiles == 2
MaxRequests == 3
MaxTime == 90
MaxScore == 1
MaxRuns == 2

\* ------------------------------------------------------------------------
\* Program constants
\* ------------------------------------------------------------------------
WindowDuration == 60
maxUploadAcceptBytes == 1 * 1024 * 1024
maxStoredImageBytes == 500 * 1024
maxImageWidth == 1024
maxDescriptionLen == 160
jpegMaxDimension == 65536
QualityStart == 80
QualityFloor == 40
QualityStep == 5
QualityFinal == 35
defaultPageSize == 20
maxPageSize == 100
maxPage == 2147483647
StatusOK == 200
StatusSeeOther == 303
StatusNotModified == 304
StatusBadRequest == 400
StatusNotFound == 404
StatusTooManyRequests == 429
StatusInternalServerError == 500

Procs == {"w1", "w2"}
IPs == {"10.0.0.1", "10.0.0.2"}
ProfileIds == 1..MaxProfiles
TickSteps == {30, 60}
ListTimes == {0, 30}

VARIABLES
    profiles,   \* table profiles: id -> row
    votes,      \* table votes: set of rows [profile_id, voter_ip, created_at]
    now,        \* the store's clock
    tx,         \* per server worker: the vote request and transaction in flight
    log,        \* completed requests, in order of completion
    inbox,      \* the request waiting to be served, when the run starts with one
    ingest,     \* the last POST /profiles: what processImageToWebP got and gave
    listing,    \* the last GET /: the query issued and the rows returned
    cfg,        \* Config, as loadConfig read it from the environment
    dir,        \* cmd/migrate: the paths of the files below the migrations directory
    schema_migrations,  \* table schema_migrations: the versions recorded
    schema,     \* the migrations whose SQL is committed, in order of commit
    mig,        \* per migrator process: the run in progress
    txlog,      \* the calls of the migrator's withTx that have returned
    runs        \* the number of migrator runs started

appVars == <<profiles, votes, now, tx, log, inbox, ingest, listing, cfg>>
migVars == <<dir, schema_migrations, schema, mig, txlog, runs>>
vars == <<appVars, migVars>>

\* ------------------------------------------------------------------------
\* Store keys and helpers
\* ------------------------------------------------------------------------
ProfileKey(id) == [t |-> "profiles", id |-> id, ip |-> ""]
VoteKey(id, ip) == [t |-> "votes", id |-> id, ip |-> ip]

VotesOf(vs, id) == {v \in vs : v.profile_id = id}
HasVote(vs, id, ip) == \E v \in vs : v.profile_id = id /\ v.voter_ip = ip
ScoreOf(ps, id) == IF id \in DOMAIN ps THEN ps[id].votes_count ELSE 0

IdleTx ==
    [pc |-> "idle", id |-> 0, ip |-> "", ts |-> 0, profiles |-> <<>>, votes |-> {},
     touched |-> {}, wrote |-> {}, stale |-> {}, exists |-> FALSE, start |-> 0,
     attempts |-> 0, form |-> <<>>, row |-> <<>>]

Active == {p \in Procs : tx[p].pc # "idle"}

\* A committed write set makes the touched keys of every other open
\* transaction stale.
Invalidate(p, keys) ==
    [q \in Procs |->
        IF q = p THEN IdleTx
        ELSE IF tx[q].pc = "idle" THEN tx[q]
        ELSE [tx[q] EXCEPT !.stale = @ \cup keys]]

\* created_at of the most recent of the vote rows vs, -1 when there is none.
Latest(vs) ==
    IF vs = {} THEN 0 - 1
    ELSE CHOOSE c \in {v.created_at : v \in vs} : \A v \in vs : v.created_at <= c

LogEntry(p, status, ps, vs) ==
    [op |-> "vote", id |-> tx[p].id, ip |-> tx[p].ip, at |-> tx[p].ts,
     status |-> status, start |-> tx[p].start, attempts |-> tx[p].attempts,
     latest |-> Latest(VotesOf(votes, tx[p].id)), size |-> 0, declared |-> "",
     before |-> ScoreOf(profiles, tx[p].id), after |-> ScoreOf(ps, tx[p].id),
     rows_before |-> Cardinality(VotesOf(votes, tx[p].id)),
     rows_after |-> Cardinality(VotesOf(vs, tx[p].id))]

\* ------------------------------------------------------------------------
\* withTx: BeginTx / fn / Rollback or Commit
\* ------------------------------------------------------------------------
\* db.BeginTx succeeded: the transaction sees the store as of now.
BeginTx(p, id, ip) ==
    tx' = [tx EXCEPT ![p] =
              [pc |-> "begun", id |-> id, ip |-> ip, ts |-> now,
               profiles |-> profiles, votes |-> votes,
               touched |-> {}, wrote |-> {}, stale |-> {}, exists |-> FALSE,
               start |-> Len(log), attempts |-> 1, form |-> <<>>, row |-> <<>>]]

\* fn returned an error (or BeginTx failed): nothing of the transaction is
\* kept and the handler answers 500.
Rollback(p) ==
    /\ tx' = [tx EXCEPT ![p] = IdleTx]
    /\ log' = Append(log, LogEntry(p, StatusInternalServerError, profiles, votes))
    /\ UNCHANGED <<profiles, votes, now, inbox, ingest, listing, cfg, migVars>>

\* tx.Commit succeeded: the write set becomes visible at once.
CommitWrites(p) ==
    LET t == tx[p]
        ps == [id \in DOMAIN profiles |->
                  IF ProfileKey(id) \in t.wrote THEN t.profiles[id] ELSE profiles[id]]
        vs == votes \cup {v \in t.votes : VoteKey(v.profile_id, v.voter_ip) \in t.wrote}
    IN  /\ profiles' = ps
        /\ votes' = vs
        /\ tx' = Invalidate(p, t.wrote)
        /\ log' = Append(log, LogEntry(p, StatusSeeOther, ps, vs))
        /\ UNCHANGED <<now, inbox, ingest, listing, cfg, migVars>>

\* ------------------------------------------------------------------------
\* voteProfile
\* ------------------------------------------------------------------------
\* POST /profiles/{id}/vote arrives; withTx opens the transaction.  The id is
\* that of a stored profile or one that names no profile (yet).
VoteBegin(p) ==
    /\ tx[p].pc = "idle"
    /\ Len(log) + Cardinality(Active) < MaxRequests
    /\ \E id \in {i \in ProfileIds : i <= Cardinality(DOMAIN profiles) + 1}, ip \in IPs :
          BeginTx(p, id, ip)
    /\ UNCHANGED <<profiles, votes, now, log, inbox, ingest, listing, cfg, migVars>>

\* INSERT INTO votes ... ON CONFLICT (profile_id, voter_ip) DO NOTHING
VoteInsert(p) ==
    LET t == tx[p] IN
    /\ t.pc = "begun"
    /\ IF t.id \notin DOMAIN t.profiles
         THEN Rollback(p)      \* foreign key violation
         ELSE /\ tx' = [tx EXCEPT ![p] =
                   [t EXCEPT
                      !.pc = "inserted",
                      !.touched = @ \cup {ProfileKey(t.id), VoteKey(t.id, t.ip)},
                      !.wrote = IF HasVote(t.votes, t.id, t.ip) THEN @
                                ELSE @ \cup {VoteKey(t.id, t.ip)},
                      !.votes = IF HasVote(t.votes, t.id, t.ip) THEN @
                                ELSE @ \cup {[profile_id |-> t.id, voter_ip |-> t.ip,
                                              created_at |-> t.ts]}]]
              /\ UNCHANGED <<profiles, votes, now, log, inbox, ingest, listing, cfg, migVars>>

\* SELECT true FROM votes WHERE profile_id = $1 AND voter_ip = $2
VoteSelect(p) ==
    LET t == tx[p] IN
    /\ t.pc = "inserted"
    /\ IF ~HasVote(t.votes, t.id, t.ip)
         THEN Rollback(p)      \* Scan: sql.ErrNoRows
         ELSE /\ tx' = [tx EXCEPT ![p] =
                   [t EXCEPT !.pc = "selected", !.exists = TRUE,
                             !.touched = @ \cup {VoteKey(t.id, t.ip)}]]
              /\ UNCHANGED <<profiles, votes, now, log, inbox, ingest, listing, cfg, migVars>>

\* Mutant of VoteUpdate: the score is incremented only when this transaction
\* inserted the vote row.
VoteUpdate_OncePerAddress(p) ==
    LET t == tx[p] IN
    /\ t.pc = "selected"
    /\ tx' = [tx EXCEPT ![p] =
          IF VoteKey(t.id, t.ip) \in t.wrote
            THEN [t EXCEPT
                    !.pc = "updated",
                    !.touched = @ \cup {ProfileKey(t.id)},
                    !.wrote = @ \cup {ProfileKey(t.id)},
                    !.profiles = [@ EXCEPT ![t.id] =
                        [@ EXCEPT !.votes_count = @ + 1, !.updated_at = t.ts]]]
            ELSE [t EXCEPT !.pc = "updated"]]
    /\ UNCHANGED <<profiles, votes, now, log, inbox, ingest, listing, cfg, migVars>>

\* Mutant of VoteUpdate: the update takes a vote away.
VoteUpdate_Decrement(p) ==
    LET t == tx[p] IN
    /\ t.pc = "selected"
    /\ tx' = [tx EXCEPT ![p] =
          [t EXCEPT
             !.pc = "updated",
             !.touched = @ \cup {ProfileKey(t.id)},
             !.wrote = @ \cup {ProfileKey(t.id)},
             !.profiles = [@ EXCEPT ![t.id] =
                 [@ EXCEPT !.votes_count = @ - 1, !.updated_at = t.ts]]]]
    /\ UNCHANGED <<profiles, votes, now, log, inbox, ingest, listing, cfg, migVars>>

\* Mutant of VoteUpdate: the score is incremented and updated_at is left as
\* it was.
VoteUpdate_KeepsUpdatedAt(p) ==
    LET t == tx[p] IN
    /\ t.pc = "selected"
    /\ tx' = [tx EXCEPT ![p] =
          IF t.exists /\ t.id \in DOMAIN t.profiles
            THEN [t EXCEPT
                    !.pc = "updated",
                    !.touched = @ \cup {ProfileKey(t.id)},
                    !.wrote = @ \cup {ProfileKey(t.id)},
                    !.profiles = [@ EXCEPT ![t.id] =
                        [@ EXCEPT !.votes_count = @ + 1]]]
            ELSE [t EXCEPT !.pc = "updated"]]
    /\ UNCHANGED <<profiles, votes, now, log, inbox, ingest, listing, cfg, migVars>>

\* if exists { UPDATE profiles SET votes_count = votes_count + 1,
\*             updated_at = now() WHERE id = $1 }
VoteUpdate(p) ==
    LET t == tx[p] IN
    /\ t.pc = "selected"
    /\ tx' = [tx EXCEPT ![p] =
          IF t.exists /\ t.id \in DOMAIN t.profiles
            THEN [t EXCEPT
                    !.pc = "updated",
                    !.touched = @ \cup {ProfileKey(t.id)},
                    !.wrote = @ \cup {ProfileKey(t.id)},
                    !.profiles = [@ EXCEPT ![t.id] =
                        [@ EXCEPT !.votes_count = @ + 1, !.updated_at = t.ts]]]
            ELSE [t EXCEPT !.pc = "updated"]]
    /\ UNCHANGED <<profiles, votes, now, log, inbox, ingest, listing, cfg, migVars>>

\* Mutant of VoteCommit: after a serialization error the handler starts the
\* transaction again.
VoteCommit_Retry(p) ==
    LET t == tx[p] IN
    /\ t.pc = "updated"
    /\ IF t.touched \cap t.stale # {}
         THEN /\ tx' = [tx EXCEPT ![p] =
                   [t EXCEPT !.pc = "begun", !.profiles = profiles, !.votes = votes,
                             !.touched = {}, !.wrote = {}, !.stale = {},
                             !.exists = FALSE, !.attempts = @ + 1]]
              /\ UNCHANGED <<profiles, votes, now, log, inbox, ingest, listing, cfg, migVars>>
         ELSE CommitWrites(p)

\* fn returned nil: tx.Commit.  A conflict with a transaction that committed
\* since BeginTx is a serialization error, surfaced like any other error.
VoteCommit(p) ==
    LET t == tx[p] IN
    /\ t.pc = "updated"
    /\ IF t.touched \cap t.stale # {}
         THEN Rollback(p)
         ELSE CommitWrites(p)

\* A statement of the transaction fails in the store (connection lost,
\* statement timeout): fn returns the error.
VoteStoreError(p) ==
    /\ tx[p].pc \in {"begun", "inserted", "selected", "updated"}
    /\ Rollback(p)

\* ------------------------------------------------------------------------
\* Time passes
\* ------------------------------------------------------------------------
Advance(steps) ==
    /\ \E d \in steps : now + d <= MaxTime /\ now' = now + d
    /\ UNCHANGED <<profiles, votes, tx, log, inbox, ingest, listing, cfg, migVars>>

Tick == Advance(TickSteps)

\* ------------------------------------------------------------------------
\* Image ingestion: processImageToWebP and resizeNearest
\* ------------------------------------------------------------------------
\* An uploaded image is described by what the pipeline observes of it:
\* its format, whether image.Decode accepts it (decoders are registered for
\* JPEG and PNG), its bounds, and the size in bytes of its JPEG encoding at
\* each quality the pipeline may ask for.  The bytes a call returns come out
\* of jpeg.Encode.
Qualities == {QualityFinal} \cup
    {q \in QualityFloor..QualityStart : (QualityStart - q) % QualityStep = 0}

ErrDecode == "decode"
ErrEncode == "jpeg: image is too large to encode"
ErrCannotFit == "cannot fit image under maxBytes"

\* int(float64(a) / float64(b)) for the non-negative integers met here: the
\* quotient is exact or at least 1/b away from an integer, so the conversion
\* truncates to the integer quotient.
TruncDiv(a, b) == a \div b

\* dst := image.NewRGBA(image.Rect(0, 0, newW, newH)); every pixel is a copy of
\* a source pixel, so only the bounds change.
resizeNearest(src, newW, newH) ==
    [src EXCEPT !.w = newW, !.h = newH, !.resampled = TRUE]

\* Mutant of Resized: the height is not scaled with the width.
Resized_HeightKept(img, maxWidth) ==
    IF img.w > maxWidth THEN resizeNearest(img, maxWidth, img.h) ELSE img

\* Mutant of Resized: every image is resampled to maxWidth.
Resized_Always(img, maxWidth) ==
    resizeNearest(img, maxWidth, TruncDiv(img.h * maxWidth, img.w))

\* The image handed to the encoder.
Resized(img, maxWidth) ==
    IF img.w > maxWidth
      THEN resizeNearest(img, maxWidth, TruncDiv(img.h * maxWidth, img.w))
      ELSE img

\* jpeg.Encode refuses bounds of 1<<16 or more and writes nothing.
EncodeFails(img) == img.w >= jpegMaxDimension \/ img.h >= jpegMaxDimension

\* What a call returns, with what it handed to the encoder: the bounds of
\* that image, whether resizeNearest made it, and the qualities tried in order.
IngestResult(img, len, isNil, ct, err, tried) ==
    [len |-> len, isNil |-> isNil, contentType |-> ct, err |-> err,
     encoding |-> IF isNil THEN "" ELSE "jpeg",
     w |-> img.w, h |-> img.h, resized |-> img.resampled, tried |-> tried]

\* Mutant of FinalAttempt: the last encoding is returned whatever its size.
FinalAttempt_Unchecked(img, maxBytes, tried) ==
    IngestResult(img, IF EncodeFails(img) THEN 0 ELSE img.enc[QualityFinal], FALSE,
                 "image/jpeg", "", Append(tried, QualityFinal))

\* Mutant of FinalAttempt: the oversized encoding is returned with the error.
FinalAttempt_PartialOutput(img, maxBytes, tried) ==
    LET outLen == IF EncodeFails(img) THEN 0 ELSE img.enc[QualityFinal]
        t == Append(tried, QualityFinal)
    IN  IF outLen > maxBytes
          THEN IngestResult(img, outLen, FALSE, "image/jpeg", ErrCannotFit, t)
          ELSE IngestResult(img, outLen, FALSE, "image/jpeg", "", t)

\* Final attempt lower quality: the encoder's error is dropped.
FinalAttempt(img, maxBytes, tried) ==
    LET outLen == IF EncodeFails(img) THEN 0 ELSE img.enc[QualityFinal]
        t == Append(tried, QualityFinal)
    IN  IF outLen > maxBytes
          THEN IngestResult(img, 0, TRUE, "", ErrCannotFit, t)
          ELSE IngestResult(img, outLen, FALSE, "image/jpeg", "", t)

\* Mutant of QualityLoop: every quality of the loop is encoded whether or not
\* an earlier one fitted, and the encoding at the lowest quality is returned.
QualityLoop_Exhaustive(img, maxBytes, q, tried) ==
    FinalAttempt(img, maxBytes,
                 [i \in 1..((QualityStart - QualityFloor) \div QualityStep + 1) |->
                     QualityStart - (i - 1) * QualityStep])

\* for q := 80; q >= 40; q -= 5 { ... }
RECURSIVE QualityLoop(_, _, _, _)
QualityLoop(img, maxBytes, q, tried) ==
    IF q < QualityFloor
      THEN FinalAttempt(img, maxBytes, tried)
      ELSE IF EncodeFails(img)
        THEN IngestResult(img, 0, TRUE, "", ErrEncode, Append(tried, q))
        ELSE IF img.enc[q] <= maxBytes
          THEN IngestResult(img, img.enc[q], FALSE, "image/jpeg", "",
                            Append(tried, q))
          ELSE QualityLoop(img, maxBytes, q - QualityStep, Append(tried, q))

processImageToWebP(input, maxWidth, maxBytes) ==
    IF ~input.decodes
      THEN IngestResult(input, 0, TRUE, "", ErrDecode, <<>>)
      ELSE QualityLoop(Resized(input, maxWidth), maxBytes, QualityStart, <<>>)

NotIngested == [called |-> FALSE]
Ingested(input, maxWidth, maxBytes) ==
    [called |-> TRUE, input |-> input, maxWidth |-> maxWidth, maxBytes |-> maxBytes,
     res |-> processImageToWebP(input, maxWidth, maxBytes)]

\* ------------------------------------------------------------------------
\* Characters: a string is a sequence of characters
\* ------------------------------------------------------------------------
\* A printable ASCII character other than the grave accent, a tab, a line
\* feed, a form feed and a carriage return are written as themselves; every
\* other character is written by its code point in four to six hexadecimal
\* digits ("U+0060", "U+00A0", "U+1F600").
\* The characters from U+0020 to U+007E, in order.
Printable ==
    <<" ", "!", "\"", "#", "$", "%", "&", "'", "(", ")", "*", "+", ",", "-", ".", "/",
      "0", "1", "2", "3", "4", "5", "6", "7", "8", "9", ":", ";", "<", "=", ">", "?",
      "@", "A", "B", "C", "D", "E", "F", "G", "H", "I", "J", "K", "L", "M", "N", "O",
      "P", "Q", "R", "S", "T", "U", "V", "W", "X", "Y", "Z", "[", "\\", "]", "^", "_",
      "U+0060", "a", "b", "c", "d", "e", "f", "g", "h", "i", "j", "k", "l", "m", "n", "o",
      "p", "q", "r", "s", "t", "u", "v", "w", "x", "y", "z", "{", "|", "}", "~">>
HexDigits ==
    <<"0", "1", "2", "3", "4", "5", "6", "7", "8", "9", "A", "B", "C", "D", "E", "F">>
HexValue(d) == (CHOOSE i \in 1..16 : HexDigits[i] = d) - 1

\* The number a run of hexadecimal digits stands for.
RECURSIVE HexNumber(_)
HexNumber(digits) ==
    IF Len(digits) = 0 THEN 0
    ELSE 16 * HexNumber(SubSeq(digits, 1, Len(digits) - 1))
         + HexValue(SubSeq(digits, Len(digits), Len(digits)))

\* The four to six hexadecimal digits of a code point.
HexString(r) ==
    LET d(k) == HexDigits[((r \div (16 ^ k)) % 16) + 1]
        low == d(3) \o d(2) \o d(1) \o d(0)
    IN  IF r < 16 ^ 4 THEN low
        ELSE IF r < 16 ^ 5 THEN d(4) \o low
        ELSE d(5) \o d(4) \o low

\* The code point (rune) of a character.
CodePoint(c) ==
    IF Len(c) > 1 THEN HexNumber(SubSeq(c, 3, Len(c)))
    ELSE IF c = "\t" THEN 9
    ELSE IF c = "\n" THEN 10
    ELSE IF c = "\f" THEN 12
    ELSE IF c = "\r" THEN 13
    ELSE 31 + CHOOSE i \in 1..Len(Printable) : Printable[i] = c

\* The character of a code point.
CharOf(r) ==
    IF r \in 32..126 THEN Printable[r - 31]
    ELSE IF r = 9 THEN "\t"
    ELSE IF r = 10 THEN "\n"
    ELSE IF r = 12 THEN "\f"
    ELSE IF r = 13 THEN "\r"
    ELSE "U+" \o HexString(r)

\* The bytes of a character in UTF-8, as a Go string holds it.
Utf8(c) ==
    LET r == CodePoint(c)
    IN  IF r < 128 THEN <<r>>
        ELSE IF r < 2048 THEN <<192 + (r \div 64), 128 + (r % 64)>>
        ELSE IF r < 65536
          THEN <<224 + (r \div 4096), 128 + ((r \div 64) % 64), 128 + (r % 64)>>
        ELSE <<240 + (r \div 262144), 128 + ((r \div 4096) % 64),
               128 + ((r \div 64) % 64), 128 + (r % 64)>>

\* The bytes of a string.
RECURSIVE Bytes(_)
Bytes(s) == IF s = <<>> THEN <<>> ELSE Utf8(Head(s)) \o Bytes(Tail(s))

\* unicode.ToLower above ASCII: the code points with a lower-case mapping,
\* as <<first, last, stride, delta>>: every stride-th code point from first
\* to last maps to itself plus delta (Unicode 15.0.0, the tables of Go 1.22).
LowerRanges ==
    <<<<192, 214, 1, 32>>, <<216, 222, 1, 32>>, <<256, 302, 2, 1>>,
      <<304, 304, 1, -199>>, <<306, 310, 2, 1>>, <<313, 327, 2, 1>>,
      <<330, 374, 2, 1>>, <<376, 376, 1, -121>>, <<377, 381, 2, 1>>,
      <<385, 385, 1, 210>>, <<386, 388, 2, 1>>, <<390, 390, 1, 206>>,
      <<391, 391, 1, 1>>, <<393, 394, 1, 205>>, <<395, 395, 1, 1>>,
      <<398, 398, 1, 79>>, <<399, 399, 1, 202>>, <<400, 400, 1, 203>>,
      <<401, 401, 1, 1>>, <<403, 403, 1, 205>>, <<404, 404, 1, 207>>,
      <<406, 406, 1, 211>>, <<407, 407, 1, 209>>, <<408, 408, 1, 1>>,
      <<412, 412, 1, 211>>, <<413, 413, 1, 213>>, <<415, 415, 1, 214>>,
      <<416, 420, 2, 1>>, <<422, 422, 1, 218>>, <<423, 423, 1, 1>>,
      <<425, 425, 1, 218>>, <<428, 428, 1, 1>>, <<430, 430, 1, 218>>,
      <<431, 431, 1, 1>>, <<433, 434, 1, 217>>, <<435, 437, 2, 1>>,
      <<439, 439, 1, 219>>, <<440, 440, 1, 1>>, <<444, 444, 1, 1>>,
      <<452, 452, 1, 2>>, <<453, 453, 1, 1>>, <<455, 455, 1, 2>>,
      <<456, 456, 1, 1>>, <<458, 458, 1, 2>>, <<459, 475, 2, 1>>,
      <<478, 494, 2, 1>>, <<497, 497, 1, 2>>, <<498, 500, 2, 1>>,
      <<502, 502, 1, -97>>, <<503, 503, 1, -56>>, <<504, 542, 2, 1>>,
      <<544, 544, 1, -130>>, <<546, 562, 2, 1>>, <<570, 570, 1, 10795>>,
      <<571, 571, 1, 1>>, <<573, 573, 1, -163>>, <<574, 574, 1, 10792>>,
      <<577, 577, 1, 1>>, <<579, 579, 1, -195>>, <<580, 580, 1, 69>>,
      <<581, 581, 1, 71>>, <<582, 590, 2, 1>>, <<880, 882, 2, 1>>,
      <<886, 886, 1, 1>>, <<895, 895, 1, 116>>, <<902, 902, 1, 38>>,
      <<904, 906, 1, 37>>, <<908, 908, 1, 64>>, <<910, 911, 1, 63>>,
      <<913, 929, 1, 32>>, <<931, 939, 1, 32>>, <<975, 975, 1, 8>>,
      <<984, 1006, 2, 1>>, <<1012, 1012, 1, -60>>, <<1015, 1015, 1, 1>>,
      <<1017, 1017, 1, -7>>, <<1018, 1018, 1, 1>>, <<1021, 1023, 1, -130>>,
      <<1024, 1039, 1, 80>>, <<1040, 1071, 1, 32>>, <<1120, 1152, 2, 1>>,
      <<1162, 1214, 2, 1>>, <<1216, 1216, 1, 15>>, <<1217, 1229, 2, 1>>,
      <<1232, 1326, 2, 1>>, <<1329, 1366, 1, 48>>, <<4256, 4293, 1, 7264>>,
      <<4295, 4295, 1, 7264>>, <<4301, 4301, 1, 7264>>,
      <<5024, 5103, 1, 38864>>, <<5104, 5109, 1, 8>>,
      <<7312, 7354, 1, -3008>>, <<7357, 7359, 1, -3008>>,
      <<7680, 7828, 2, 1>>, <<7838, 7838, 1, -7615>>, <<7840, 7934, 2, 1>>,
      <<7944, 7951, 1, -8>>, <<7960, 7965, 1, -8>>, <<7976, 7983, 1, -8>>,
      <<7992, 7999, 1, -8>>, <<8008, 8013, 1, -8>>, <<8025, 8031, 2, -8>>,
      <<8040, 8047, 1, -8>>, <<8072, 8079, 1, -8>>, <<8088, 8095, 1, -8>>,
      <<8104, 8111, 1, -8>>, <<8120, 8121, 1, -8>>, <<8122, 8123, 1, -74>>,
      <<8124, 8124, 1, -9>>, <<8136, 8139, 1, -86>>, <<8140, 8140, 1, -9>>,
      <<8152, 8153, 1, -8>>, <<8154, 8155, 1, -100>>, <<8168, 8169, 1, -8>>,
      <<8170, 8171, 1, -112>>, <<8172, 8172, 1, -7>>,
      <<8184, 8185, 1, -128>>, <<8186, 8187, 1, -126>>,
      <<8188, 8188, 1, -9>>, <<8486, 8486, 1, -7517>>,
      <<8490, 8490, 1, -8383>>, <<8491, 8491, 1, -8262>>,
      <<8498, 8498, 1, 28>>, <<8544, 8559, 1, 16>>, <<8579, 8579, 1, 1>>,
      <<9398, 9423, 1, 26>>, <<11264, 11311, 1, 48>>, <<11360, 11360, 1, 1>>,
      <<11362, 11362, 1, -10743>>, <<11363, 11363, 1, -3814>>,
      <<11364, 11364, 1, -10727>>, <<11367, 11371, 2, 1>>,
      <<11373, 11373, 1, -10780>>, <<11374, 11374, 1, -10749>>,
      <<11375, 11375, 1, -10783>>, <<11376, 11376, 1, -10782>>,
      <<11378, 11378, 1, 1>>, <<11381, 11381, 1, 1>>,
      <<11390, 11391, 1, -10815>>, <<11392, 11490, 2, 1>>,
      <<11499, 11501, 2, 1>>, <<11506, 11506, 1, 1>>, <<42560, 42604, 2, 1>>,
      <<42624, 42650, 2, 1>>, <<42786, 42798, 2, 1>>, <<42802, 42862, 2, 1>>,
      <<42873, 42875, 2, 1>>, <<42877, 42877, 1, -35332>>,
      <<42878, 42886, 2, 1>>, <<42891, 42891, 1, 1>>,
      <<42893, 42893, 1, -42280>>, <<42896, 42898, 2, 1>>,
      <<42902, 42920, 2, 1>>, <<42922, 42922, 1, -42308>>,
      <<42923, 42923, 1, -42319>>, <<42924, 42924, 1, -42315>>,
      <<42925, 42925, 1, -42305>>, <<42926, 42926, 1, -42308>>,
      <<42928, 42928, 1, -42258>>, <<42929, 42929, 1, -42282>>,
      <<42930, 42930, 1, -42261>>, <<42931, 42931, 1, 928>>,
      <<42932, 42946, 2, 1>>, <<42948, 42948, 1, -48>>,
      <<42949, 42949, 1, -42307>>, <<42950, 42950, 1, -35384>>,
      <<42951, 42953, 2, 1>>, <<42960, 42960, 1, 1>>, <<42966, 42968, 2, 1>>,
      <<42997, 42997, 1, 1>>, <<65313, 65338, 1, 32>>,
      <<66560, 66599, 1, 40>>, <<66736, 66771, 1, 40>>,
      <<66928, 66938, 1, 39>>, <<66940, 66954, 1, 39>>,
      <<66956, 66962, 1, 39>>, <<66964, 66965, 1, 39>>,
      <<68736, 68786, 1, 64>>, <<71840, 71871, 1, 32>>,
      <<93760, 93791, 1, 32>>, <<125184, 125217, 1, 34>>>>

\* unicode.ToLower
ToLowerRune(r) ==
    IF r < 128 THEN (IF r \in 65..90 THEN r + 32 ELSE r)
    ELSE IF \E i \in 1..Len(LowerRanges) :
                /\ r \in LowerRanges[i][1]..LowerRanges[i][2]
                /\ (r - LowerRanges[i][1]) % LowerRanges[i][3] = 0
      THEN r + LowerRanges[CHOOSE i \in 1..Len(LowerRanges) :
                               /\ r \in LowerRanges[i][1]..LowerRanges[i][2]
                               /\ (r - LowerRanges[i][1]) % LowerRanges[i][3] = 0][4]
    ELSE r

\* strings.ToLower, and lower() of the store: character by character.
ToLowerChar(c) == CharOf(ToLowerRune(CodePoint(c)))
ToLower(s) == [i \in 1..Len(s) |-> ToLowerChar(s[i])]

\* ------------------------------------------------------------------------
\* handleCreateProfile
\* ------------------------------------------------------------------------
\* unicode.IsSpace: the characters strings.TrimSpace removes.
WhiteSpace ==
    {"\t", "\n", "U+000B", "\f", "\r", " ", "U+0085", "U+00A0", "U+1680",
     "U+2000", "U+2001", "U+2002", "U+2003", "U+2004", "U+2005", "U+2006",
     "U+2007", "U+2008", "U+2009", "U+200A", "U+2028", "U+2029", "U+202F",
     "U+205F", "U+3000"}
IsSpace(c) == c \in WhiteSpace

\* The number of bytes of a character in UTF-8.
Utf8Width(c) == Len(Utf8(c))

\* len(s): the length of a string in bytes.
ByteLen(s) ==
    Len(s) + Cardinality({i \in 1..Len(s) : Utf8Width(s[i]) >= 2})
           + Cardinality({i \in 1..Len(s) : Utf8Width(s[i]) >= 3})
           + Cardinality({i \in 1..Len(s) : Utf8Width(s[i]) >= 4})

RECURSIVE TrimLeft(_)
TrimLeft(s) ==
    IF s # <<>> /\ IsSpace(Head(s)) THEN TrimLeft(Tail(s)) ELSE s

RECURSIVE TrimRight(_)
TrimRight(s) ==
    IF s # <<>> /\ IsSpace(s[Len(s)]) THEN TrimRight(SubSeq(s, 1, Len(s) - 1)) ELSE s

TrimSpace(s) == TrimRight(TrimLeft(s))

\* Mutant of CreateRejects: the size of the photo is not looked at.
CreateRejects_NoCeiling(u) ==
    IF u.method # "POST" THEN StatusNotFound
    ELSE IF ~u.formOK THEN StatusBadRequest
    ELSE IF TrimSpace(u.full_name) = <<>> \/ TrimSpace(u.country) = <<>>
            \/ TrimSpace(u.city) = <<>> THEN StatusBadRequest
    ELSE IF ByteLen(TrimSpace(u.description)) > maxDescriptionLen THEN StatusBadRequest
    ELSE IF ~u.hasPhoto THEN StatusBadRequest
    ELSE IF ~u.readOK THEN StatusBadRequest
    ELSE 0

\* The status the handler answers with before it reaches the store, or 0.
\* io.CopyN keeps at most maxUploadAcceptBytes+1 bytes of the file.
CreateRejects(u) ==
    LET bufLen == IF u.size > maxUploadAcceptBytes + 1
                    THEN maxUploadAcceptBytes + 1 ELSE u.size
    IN  IF u.method # "POST" THEN StatusNotFound
        ELSE IF ~u.formOK THEN StatusBadRequest
        ELSE IF TrimSpace(u.full_name) = <<>> \/ TrimSpace(u.country) = <<>>
                \/ TrimSpace(u.city) = <<>> THEN StatusBadRequest
        ELSE IF ByteLen(TrimSpace(u.description)) > maxDescriptionLen THEN StatusBadRequest
        ELSE IF ~u.hasPhoto THEN StatusBadRequest
        ELSE IF u.size > maxUploadAcceptBytes THEN StatusBadRequest
        ELSE IF ~u.readOK THEN StatusBadRequest
        ELSE IF bufLen > maxUploadAcceptBytes THEN StatusBadRequest
        ELSE 0

\* Mutant of NewProfile: the row takes the content type the client declared.
NewProfile_DeclaredType(u, res, at) ==
    [full_name |-> TrimSpace(u.full_name), location_country |-> TrimSpace(u.country),
     location_city |-> TrimSpace(u.city), description |-> TrimSpace(u.description),
     photo_len |-> res.len, photo_encoding |-> res.encoding,
     photo_content_type |-> u.declared,
     created_at |-> at, updated_at |-> at, votes_count |-> 0]

\* INSERT INTO profiles (...) VALUES ($1..$6): the other columns take their
\* defaults, the id is fresh.  photo_encoding is the format of the bytes
\* stored in photo_webp.
NewProfile(u, res, at) ==
    [full_name |-> TrimSpace(u.full_name), location_country |-> TrimSpace(u.country),
     location_city |-> TrimSpace(u.city), description |-> TrimSpace(u.description),
     photo_len |-> res.len, photo_encoding |-> res.encoding,
     photo_content_type |-> res.contentType,
     created_at |-> at, updated_at |-> at, votes_count |-> 0]

CreateEntry(u, id, status, at, start) ==
    [op |-> "create", id |-> id, ip |-> "", at |-> at, status |-> status,
     start |-> start, attempts |-> IF id = 0 THEN 0 ELSE 1, latest |-> 0 - 1,
     size |-> u.size, declared |-> u.declared,
     before |-> 0, after |-> 0, rows_before |-> 0, rows_after |-> 0]

\* The handlers that are inside the insert transaction of a POST /profiles.
Creating == {p \in Procs : tx[p].pc \in {"creating", "created"}}

\* The handler up to db.BeginTx: the form, the photo, processImageToWebP and
\* the start of the transaction.  dbok: whether BeginTx succeeds.
handleCreateProfile(p, u, dbok) ==
    LET rejected == CreateRejects(u)
        ing == Ingested(u.img, maxImageWidth, maxStoredImageBytes)
    IN  /\ tx[p].pc = "idle"
        /\ Len(log) + Cardinality(Active) < MaxRequests
        /\ Cardinality(DOMAIN profiles) + Cardinality(Creating) < MaxProfiles
        /\ IF rejected # 0
             THEN /\ ingest' = NotIngested
                  /\ log' = Append(log, CreateEntry(u, 0, rejected, now, Len(log)))
                  /\ UNCHANGED <<profiles, tx>>
             ELSE /\ ingest' = ing
                  /\ IF ing.res.err # ""
                       THEN /\ log' = Append(log, CreateEntry(u, 0, StatusBadRequest,
                                                              now, Len(log)))
                            /\ UNCHANGED <<profiles, tx>>
                       ELSE IF ~dbok
                         THEN /\ log' = Append(log, CreateEntry(u, 0,
                                                   StatusInternalServerError, now, Len(log)))
                              /\ UNCHANGED <<profiles, tx>>
                         ELSE /\ tx' = [tx EXCEPT ![p] =
                                     [IdleTx EXCEPT !.pc = "creating", !.ts = now,
                                                    !.start = Len(log), !.attempts = 1,
                                                    !.form = u, !.row = <<>>]]
                              /\ UNCHANGED <<profiles, log>>
        /\ UNCHANGED <<votes, now, listing, cfg, migVars>>

\* INSERT INTO profiles (...) VALUES ($1..$6) RETURNING id: created_at and
\* updated_at default to now(), the time of the transaction.
CreateInsert(p) ==
    LET t == tx[p] IN
    /\ t.pc = "creating"
    /\ tx' = [tx EXCEPT ![p] =
          [t EXCEPT !.pc = "created",
                    !.row = NewProfile(t.form,
                               processImageToWebP(t.form.img, maxImageWidth,
                                                  maxStoredImageBytes), t.ts)]]
    /\ UNCHANGED <<profiles, votes, now, log, inbox, ingest, listing, cfg, migVars>>

\* fn returned nil: tx.Commit.  The row becomes visible under a fresh id.
CreateCommit(p) ==
    LET t == tx[p]
        id == Cardinality(DOMAIN profiles) + 1
    IN  /\ t.pc = "created"
        /\ profiles' = [i \in DOMAIN profiles \cup {id} |->
                           IF i = id THEN t.row ELSE profiles[i]]
        /\ tx' = Invalidate(p, {ProfileKey(id)})
        /\ log' = Append(log, CreateEntry(t.form, id, StatusSeeOther, t.ts, t.start))
        /\ UNCHANGED <<votes, now, inbox, ingest, listing, cfg, migVars>>

\* The INSERT or the Commit fails in the store: withTx returns the error,
\* nothing of the transaction is kept and the handler answers 500.
CreateStoreError(p) ==
    LET t == tx[p] IN
    /\ t.pc \in {"creating", "created"}
    /\ tx' = [tx EXCEPT ![p] = IdleTx]
    /\ log' = Append(log, CreateEntry(t.form, 0, StatusInternalServerError,
                                      t.ts, t.start))
    /\ UNCHANGED <<profiles, votes, now, inbox, ingest, listing, cfg, migVars>>

CreateStep(p) ==
    \/ CreateInsert(p)
    \/ CreateCommit(p)
    \/ CreateStoreError(p)


\* ------------------------------------------------------------------------
\* Text: strings are sequences of one-character strings
\* ------------------------------------------------------------------------
Digits == <<"0", "1", "2", "3", "4", "5", "6", "7", "8", "9">>
IsDigit(c) == \E i \in 1..10 : Digits[i] = c
DigitValue(c) == (CHOOSE i \in 1..10 : Digits[i] = c) - 1

\* Go's int on the build targets (GOARCH=amd64, arm64) has 64 bits.  A value
\* is kept as a sign and a magnitude of four 16-bit limbs, lowest first.
WideBase == 2^16
WideZero == <<0, 0, 0, 0>>

\* mag * m + a for small m and a: the limbs modulo 2^64 and the carry out.
MulAdd(mag, m, a) ==
    LET p1 == mag[1] * m + a
        p2 == mag[2] * m + (p1 \div WideBase)
        p3 == mag[3] * m + (p2 \div WideBase)
        p4 == mag[4] * m + (p3 \div WideBase)
    IN  [limbs |-> <<p1 % WideBase, p2 % WideBase, p3 % WideBase, p4 % WideBase>>,
         carry |-> p4 \div WideBase]

MagLess(a, b) ==
    \E i \in 1..4 : a[i] < b[i] /\ \A j \in (i + 1)..4 : a[j] = b[j]

\* An int of the model's own range as a 64-bit value.
Int64(n) ==
    LET m == IF n < 0 THEN 0 - n ELSE n
    IN  [neg |-> n < 0, mag |-> <<m % WideBase, m \div WideBase, 0, 0>>]

IntLess(x, y) ==
    IF x.neg /\ ~y.neg THEN TRUE
    ELSE IF ~x.neg /\ y.neg THEN FALSE
    ELSE IF x.neg THEN MagLess(y.mag, x.mag)
    ELSE MagLess(x.mag, y.mag)

\* The value of x, for x within the model's own range.
Small(x) ==
    LET m == x.mag[1] + x.mag[2] * WideBase
    IN  IF x.neg THEN 0 - m ELSE m

\* One more digit d behind the digits read so far; over is set once the
\* magnitude has passed 2^64 - 1.
Shift(acc, d) ==
    [mag |-> MulAdd(acc.mag, 10, d).limbs,
     over |-> acc.over \/ MulAdd(acc.mag, 10, d).carry > 0]

\* The magnitude of a digit string, digit by digit.
RECURSIVE DecimalValue(_, _)
DecimalValue(s, acc) ==
    IF s = <<>> THEN acc
    ELSE CHOOSE v \in {DecimalValue(Tail(s), a) :
                          a \in {Shift(acc, DigitValue(Head(s)))}} : TRUE

\* strconv.Atoi: an optional sign and at least one digit, nothing else; a
\* value outside -2^63 .. 2^63-1 is a range error.
Atoi(s) ==
    LET signed == s # <<>> /\ Head(s) \in {"-", "+"}
        neg == signed /\ Head(s) = "-"
        body == IF signed THEN Tail(s) ELSE s
        syntax == body # <<>> /\ \A i \in 1..Len(body) : IsDigit(body[i])
        v == IF syntax THEN DecimalValue(body, [mag |-> WideZero, over |-> FALSE])
             ELSE [mag |-> WideZero, over |-> FALSE]
        inRange == /\ ~v.over
                   /\ \/ v.mag[4] < WideBase \div 2
                      \/ neg /\ v.mag = <<0, 0, 0, WideBase \div 2>>
    IN  [ok |-> syntax /\ inRange,
         n |-> [neg |-> neg /\ v.mag # WideZero, mag |-> v.mag]]

clampAtoi(s, min, max, def) ==
    IF s = <<>> THEN def
    ELSE IF ~Atoi(s).ok THEN def
    ELSE IF IntLess(Atoi(s).n, Int64(min)) THEN min
    ELSE IF IntLess(Int64(max), Atoi(s).n) THEN max
    ELSE Small(Atoi(s).n)

\* loadConfig: LEADERBOARD_PAGE_SIZE_DEFAULT is used when it parses to 1..100.
loadConfig(env) ==
    [PageSizeDefault |->
        IF /\ env # <<>> /\ Atoi(env).ok
           /\ IntLess(Int64(0), Atoi(env).n) /\ ~IntLess(Int64(maxPageSize), Atoi(env).n)
          THEN Small(Atoi(env).n) ELSE defaultPageSize]

\* ------------------------------------------------------------------------
\* handleHome: the listing query
\* ------------------------------------------------------------------------
\* search_text: the stored generated column of profiles.
search_text(row) ==
    ToLower(row.full_name \o <<" ">> \o row.location_country \o <<" ">>
            \o row.location_city \o <<" ">> \o row.description)

\* SQL LIKE: % matches any run of characters, _ any one character, and a
\* backslash takes the next pattern character literally.
RECURSIVE Like(_, _)
Like(s, pat) ==
    IF pat = <<>> THEN s = <<>>
    ELSE IF Head(pat) = "%"
      THEN Like(s, Tail(pat)) \/ (s # <<>> /\ Like(Tail(s), pat))
    ELSE IF Head(pat) = "\\" /\ Len(pat) >= 2
      THEN s # <<>> /\ Head(s) = pat[2] /\ Like(Tail(s), Tail(Tail(pat)))
    ELSE /\ s # <<>>
         /\ (Head(pat) = "_" \/ Head(pat) = Head(s))
         /\ Like(Tail(s), Tail(pat))

\* Mutant of OrderedBefore: ties in votes_count go oldest first.
OrderedBefore_OldestFirst(a, b) ==
    \/ a.votes_count > b.votes_count
    \/ (a.votes_count = b.votes_count /\ a.created_at < b.created_at)

\* ORDER BY votes_count DESC, created_at DESC: row a must come before row b.
OrderedBefore(a, b) ==
    \/ a.votes_count > b.votes_count
    \/ (a.votes_count = b.votes_count /\ a.created_at > b.created_at)

\* The orders the store may return the rows with these ids in: every
\* arrangement that respects the ORDER BY clause.
Orderings(ids) ==
    {s \in [1..Cardinality(ids) -> ids] :
        /\ \A i, j \in 1..Cardinality(ids) : i # j => s[i] # s[j]
        /\ \A i, j \in 1..Cardinality(ids) :
              i < j => ~OrderedBefore(profiles[s[j]], profiles[s[i]])}

\* LIMIT size OFFSET offset
Page(s, size, offset) ==
    IF offset >= Len(s) THEN <<>>
    ELSE SubSeq(s, offset + 1, IF offset + size > Len(s) THEN Len(s) ELSE offset + size)

\* What rows.Scan copies out of a row.
Scanned(id) ==
    [ID |-> id, FullName |-> profiles[id].full_name,
     Country |-> profiles[id].location_country, City |-> profiles[id].location_city,
     Description |-> profiles[id].description, Votes |-> profiles[id].votes_count,
     CreatedAt |-> profiles[id].created_at, UpdatedAt |-> profiles[id].updated_at]

NotListed == [called |-> FALSE]

\* Mutant of Offset: the product is kept in 32 bits.
Offset_Int32(page, size) ==
    LET r == MulAdd(Int64(page - 1).mag, size, 0)
        ext == IF r.limbs[2] >= WideBase \div 2 THEN WideBase - 1 ELSE 0
    IN  [limbs |-> <<r.limbs[1], r.limbs[2], ext, ext>>,
         carry |-> IF r.limbs[3] # 0 \/ r.limbs[4] # 0 THEN 1 ELSE r.carry,
         negative |-> r.limbs[2] >= WideBase \div 2]

\* offset := (page - 1) * size, in 64-bit two's complement.
Offset(page, size) ==
    LET r == MulAdd(Int64(page - 1).mag, size, 0)
    IN  [limbs |-> r.limbs, carry |-> r.carry,
         negative |-> r.limbs[4] >= WideBase \div 2]

\* What the handler made of the request and what it answered.
\* missed: the rows of the result set that the store did not deliver.
Answer(status, q, page, size, offset, issued, rows, missed) ==
    [called |-> TRUE, status |-> status, q |-> q, page |-> page,
     size |-> size, offset |-> offset, issued |-> issued, rows |-> rows,
     missed |-> missed]

\* dbok: whether the store answers the query.  The store refuses a negative
\* OFFSET.  A result set may end early on a store error: rows.Next returns
\* false, rows.Err is not looked at, and the rows read so far are rendered
\* with status 200.
handleHome(path, rawq, rawpage, rawsize, dbok) ==
    \E q \in {TrimSpace(rawq)},
       page \in {clampAtoi(rawpage, 1, maxPage, 1)},
       size \in {clampAtoi(rawsize, 1, maxPageSize, cfg.PageSizeDefault)} :
    \E offset \in {Offset(page, size)} :
    \E matching \in {IF q = <<>> THEN DOMAIN profiles
                     ELSE {id \in DOMAIN profiles :
                              Like(search_text(profiles[id]),
                                   <<"%">> \o ToLower(q) \o <<"%">>)}} :
        /\ IF path # "/"
             THEN listing' = Answer(StatusNotFound, q, page, size, offset, FALSE, <<>>, 0)
             ELSE IF ~dbok \/ offset.negative
               THEN listing' = Answer(StatusInternalServerError, q, page, size, offset,
                                      TRUE, <<>>, 0)
               ELSE \E s \in Orderings(matching) :
                      \E pg \in {IF ~MagLess(offset.limbs, Int64(Len(s)).mag) THEN <<>>
                                 ELSE Page(s, size, offset.limbs[1])} :
                      \E n \in 0..Len(pg) :
                         listing' = Answer(StatusOK, q, page, size, offset, TRUE,
                                           [i \in 1..n |-> Scanned(pg[i])], Len(pg) - n)
        /\ UNCHANGED <<profiles, votes, now, tx, log, ingest, cfg, migVars>>

\* ------------------------------------------------------------------------
\* Reads counted among the answered requests: servePhoto and GET /
\* ------------------------------------------------------------------------
\* A read is logged with its kind, its id and its status; what it answered is
\* kept in listing.
ReadEntry(op, id, status) ==
    [op |-> op, id |-> id, ip |-> "", at |-> now, status |-> status,
     start |-> Len(log), attempts |-> 0, latest |-> 0 - 1, size |-> 0, declared |-> "",
     before |-> 0, after |-> 0, rows_before |-> 0, rows_after |-> 0]

\* fmt.Sprintf("\"%s-%d\"", id, updated.Unix()): the quotes delimit the tag,
\* so a tag occurs in a header exactly when it is one of the tags listed.
ETag(id, updated) == <<id, updated>>

\* The If-None-Match headers a client sends for the photo of id: none, or a
\* tag that an earlier answer for that id carried.
Matches(id) == {<<>>} \cup {<<ETag(id, t)>> : t \in ListTimes}

PhotoAnswer(id, status, etag, ct, len) ==
    [called |-> TRUE, op |-> "photo", id |-> id, status |-> status, etag |-> etag,
     contentType |-> ct, len |-> len]

\* dbok: whether the store answers the query.  No row and a store error
\* both end in http.NotFound; 304 carries the headers and no body.
servePhoto(id, match, dbok) ==
    \E found \in {dbok /\ id \in DOMAIN profiles} :
    \E etag \in {IF found THEN ETag(id, profiles[id].updated_at) ELSE <<>>} :
    \E status \in {IF ~found THEN StatusNotFound
                    ELSE IF \E i \in 1..Len(match) : match[i] = etag
                      THEN StatusNotModified
                      ELSE StatusOK} :
        /\ Len(log) + Cardinality(Active) < MaxRequests
        /\ listing' =
              IF ~found THEN PhotoAnswer(id, status, <<>>, "", 0)
              ELSE PhotoAnswer(id, status, etag, profiles[id].photo_content_type,
                               IF status = StatusOK THEN profiles[id].photo_len ELSE 0)
        /\ log' = Append(log, ReadEntry("photo", id, status))
        /\ UNCHANGED <<profiles, votes, now, tx, inbox, ingest, cfg, migVars>>

\* handleHome on GET / without parameters, logged as a read.
homeFirstPage(dbok) ==
    \E q \in {TrimSpace(<<>>)},
       page \in {clampAtoi(<<>>, 1, maxPage, 1)},
       size \in {clampAtoi(<<>>, 1, maxPageSize, cfg.PageSizeDefault)} :
    \E offset \in {Offset(page, size)} :
        /\ Len(log) + Cardinality(Active) < MaxRequests
        /\ IF ~dbok \/ offset.negative
             THEN /\ listing' = Answer(StatusInternalServerError, q, page, size, offset,
                                       TRUE, <<>>, 0)
                  /\ log' = Append(log, ReadEntry("list", 0, StatusInternalServerError))
             ELSE \E s \in Orderings(DOMAIN profiles) :
                    \E pg \in {IF ~MagLess(offset.limbs, Int64(Len(s)).mag) THEN <<>>
                               ELSE Page(s, size, offset.limbs[1])} :
                    \E n \in 0..Len(pg) :
                       /\ listing' = Answer(StatusOK, q, page, size, offset, TRUE,
                                            [i \in 1..n |-> Scanned(pg[i])], Len(pg) - n)
                       /\ log' = Append(log, ReadEntry("list", 0, StatusOK))
        /\ UNCHANGED <<profiles, votes, now, tx, inbox, ingest, cfg, migVars>>

\* ------------------------------------------------------------------------
\* Inputs
\* ------------------------------------------------------------------------
EncSizes == {maxStoredImageBytes, maxStoredImageBytes + 1}
ImageBounds ==
    {<<1, 1>>, <<800, 600>>, <<1023, 7>>, <<1024, 768>>, <<1025, 3>>, <<1536, 1000>>,
     <<2048, 1>>, <<3000, 2001>>, <<4096, 4097>>, <<600, 65536>>, <<1025, 65599>>}

Images ==
    {[format |-> f, decodes |-> TRUE, w |-> b[1], h |-> b[2], resampled |-> FALSE,
      enc |-> e] :
        f \in {"jpeg", "png"}, b \in ImageBounds, e \in [Qualities -> EncSizes]}
    \cup {[format |-> f, decodes |-> FALSE, w |-> 0, h |-> 0, resampled |-> FALSE,
             enc |-> [q \in Qualities |-> 0]] : f \in {"jpeg", "gif"}}

BaseImage ==
    [format |-> "jpeg", decodes |-> TRUE, w |-> 800, h |-> 600, resampled |-> FALSE,
     enc |-> [q \in Qualities |-> maxStoredImageBytes]]

BaseUpload ==
    [method |-> "POST", formOK |-> TRUE, full_name |-> <<"A", "b">>, country |-> <<"c">>,
     city |-> <<"d">>, description |-> <<>>, hasPhoto |-> TRUE, size |-> 4096,
     declared |-> "image/jpeg", readOK |-> TRUE, img |-> BaseImage]

DeclaredTypes == {"image/jpeg", "image/png", "image/webp", "text/html"}

LongText == [i \in 1..(maxDescriptionLen + 1) |-> "a"]

IngestUploads ==
    {[BaseUpload EXCEPT !.img = i] : i \in Images}
    \cup {[BaseUpload EXCEPT !.declared = c, !.img = [BaseImage EXCEPT !.format = f]] :
             c \in DeclaredTypes, f \in {"jpeg", "png"}}
    \cup {[BaseUpload EXCEPT !.method = "GET"], [BaseUpload EXCEPT !.formOK = FALSE],
          [BaseUpload EXCEPT !.full_name = <<" ">>], [BaseUpload EXCEPT !.city = <<>>],
          [BaseUpload EXCEPT !.description = LongText],
          [BaseUpload EXCEPT !.description = <<" ">> \o Tail(LongText) \o <<" ">>],
          [BaseUpload EXCEPT !.description = Tail(LongText) \o <<"\r", "\n">>],
          [BaseUpload EXCEPT !.description =
              <<"a", "U+00A0">> \o Tail(Tail(Tail(LongText)))],
          [BaseUpload EXCEPT !.description = [i \in 1..80 |-> "U+00E9"]],
          [BaseUpload EXCEPT !.description = [i \in 1..81 |-> "U+00E9"]],
          [BaseUpload EXCEPT !.description = [i \in 1..53 |-> "U+20AC"] \o <<"a">>],
          [BaseUpload EXCEPT !.description = [i \in 1..54 |-> "U+20AC"]],
          [BaseUpload EXCEPT !.description = [i \in 1..40 |-> "U+1F600"]],
          [BaseUpload EXCEPT !.description = [i \in 1..41 |-> "U+1F600"]],
          [BaseUpload EXCEPT !.full_name = <<"\r">>],
          [BaseUpload EXCEPT !.full_name = <<"\r", "E", "\r", "\n">>,
                             !.city = <<"U+00A0", "d", "\f">>],
          [BaseUpload EXCEPT !.hasPhoto = FALSE], [BaseUpload EXCEPT !.readOK = FALSE],
          [BaseUpload EXCEPT !.size = maxUploadAcceptBytes],
          [BaseUpload EXCEPT !.size = maxUploadAcceptBytes + 1],
          [BaseUpload EXCEPT !.size = maxUploadAcceptBytes + 2]}

ListUploads ==
    {BaseUpload, [BaseUpload EXCEPT !.full_name = <<"c", "d">>, !.city = <<" ", "B", "U+00E9", " ">>]}

NoRequest == [kind |-> "none"]
PostProfiles(u) == [kind |-> "POST /profiles", form |-> u]
GetHome(path, q, page, page_size) ==
    [kind |-> "GET", path |-> path, q |-> q, page |-> page, page_size |-> page_size]

Envs == {<<>>, <<"5">>, <<"0">>, <<"1", "0", "0">>, <<"1", "0", "1">>, <<"-", "1">>, <<"x">>}
Paths == {"/", "/favicon.ico"}
Queries == {<<>>, <<"a">>, <<" ", "b", "U+00C9", " ">>, <<"_">>}
Nines == [i \in 1..20 |-> "9"]
PageParams ==
    {<<>>, <<"2">>, <<"0">>, <<"x">>, <<"-", "1">>,
     <<"2", "1", "4", "7", "4", "8", "3", "6", "4", "7">>,
     <<"2", "1", "4", "7", "4", "8", "3", "6", "4", "8">>, Nines}
SizeParams == {<<>>, <<"1">>, <<"0">>, <<"-", "3">>, <<"1", "0", "0">>, <<"1", "0", "1">>, <<"x">>}

\* The GET requests of the listing runs with the environment the server was
\* started in: every search with the default paging under every environment,
\* every paging of the unfiltered listing, and a second page of a search.
ListSetups ==
    {[env |-> e, req |-> GetHome(path, q, <<>>, <<>>)] :
        e \in Envs, path \in Paths, q \in Queries}
    \cup {[env |-> <<>>, req |-> GetHome("/", <<>>, pg, sz)] :
             pg \in PageParams, sz \in SizeParams}
    \cup {[env |-> <<>>, req |-> GetHome("/", <<"a">>, <<"2">>, <<"1">>)]}
    \cup {[env |-> e, req |-> GetHome("/", <<>>, pg, <<>>)] :
             e \in Envs, pg \in PageParams}

\* ------------------------------------------------------------------------
\* cmd/migrate: the migrator
\* ------------------------------------------------------------------------
Migrators == {"m1", "m2"}

\* A file below the migrations directory is the path to it: the names of
\* the directories on the way down and then its own name.  The files there at
\* the start and the changes made later: a file is added to the top
\* directory; a subdirectory is moved in that holds a file with the name of
\* a file of the top directory and a file with a name of its own.
FirstFiles ==
    {<<<<"1", ".", "s", "q", "l">>>>, <<<<"2", ".", "S", "Q", "L">>>>,
     <<<<"a", ".", "m", "d">>>>}
LaterFiles ==
    {{<<<<"1", "0", ".", "s", "q", "l">>>>},
     {<<<<"s">>, <<"2", ".", "S", "Q", "L">>>>,
      <<<<"s">>, <<"3", ".", "s", "q", "l">>>>}}

\* d.Name(): the last element of the path.
Base(path) == path[Len(path)]

\* a < b as Go compares strings: byte by byte.
RECURSIVE BytesLess(_, _)
BytesLess(a, b) ==
    IF b = <<>> THEN FALSE
    ELSE IF a = <<>> THEN TRUE
    ELSE IF Head(a) = Head(b) THEN BytesLess(Tail(a), Tail(b))
    ELSE Head(a) < Head(b)
StrLess(a, b) == BytesLess(Bytes(a), Bytes(b))

HasSuffix(s, suffix) ==
    Len(s) >= Len(suffix) /\ SubSeq(s, Len(s) - Len(suffix) + 1, Len(s)) = suffix

\* filepath.WalkDir: every file at any depth below the directory whose name
\* ends in .sql, whatever the case.
SqlPaths(d) == {path \in d : HasSuffix(ToLower(Base(path)), <<".", "s", "q", "l">>)}

\* Mutant of readMigrationFiles: the names are left in descending order.
readMigrationFiles_Descending(d) ==
    LET found == SqlPaths(d)
        names == {Base(path) : path \in found}
    IN  [i \in 1..Cardinality(found) |->
            CHOOSE n \in names :
                /\ Cardinality({path \in found : StrLess(n, Base(path))}) < i
                /\ i <= Cardinality({path \in found : ~StrLess(Base(path), n)})]

\* files = append(files, name) for every file found by the walk, then
\* sort.Strings: a name stands once for every path that ends in it, after
\* the names that are less and before the names that are greater.
readMigrationFiles(d) ==
    LET found == SqlPaths(d)
        names == {Base(path) : path \in found}
    IN  [i \in 1..Cardinality(found) |->
            CHOOSE n \in names :
                /\ Cardinality({path \in found : StrLess(Base(path), n)}) < i
                /\ i <= Cardinality({path \in found : ~StrLess(n, Base(path))})]

\* SELECT version FROM schema_migrations
getAppliedMigrations == schema_migrations

\* Mutant of withTx: nothing recovers a panic of fn.
withTx_NoRecover(fn, commitOK) ==
    IF fn = "panic" THEN [fn |-> fn, calls |-> <<>>, ret |-> "panic", committed |-> FALSE]
    ELSE IF fn = "error"
      THEN [fn |-> fn, calls |-> <<"Rollback">>, ret |-> "error", committed |-> FALSE]
    ELSE [fn |-> fn, calls |-> <<"Commit">>,
          ret |-> IF commitOK THEN "nil" ELSE "error", committed |-> commitOK]

\* withTx once BeginTx has succeeded: what it calls on the transaction and
\* how it leaves, given how fn ended (nil, error, panic) and whether the
\* store carries out the commit.
withTx(fn, commitOK) ==
    IF fn = "panic"
      THEN [fn |-> fn, calls |-> <<"Rollback">>, ret |-> "panic", committed |-> FALSE]
    ELSE IF fn = "error"
      THEN [fn |-> fn, calls |-> <<"Rollback">>, ret |-> "error", committed |-> FALSE]
    ELSE [fn |-> fn, calls |-> <<"Commit">>,
          ret |-> IF commitOK THEN "nil" ELSE "error", committed |-> commitOK]

IdleRun == [pc |-> "idle", files |-> <<>>, applied |-> {}, i |-> 0, run |-> 0]

\* The migration the run of m is at.
Version(m) == mig[m].files[mig[m].i]

\* Mutant of applyFailed: the SQL the transaction had executed stays in the
\* store although its version is not recorded.
applyFailed_SqlKept(m, fn) ==
    /\ mig' = [mig EXCEPT ![m] = IdleRun]
    /\ txlog' = Append(txlog, [version |-> Version(m), run |-> mig[m].run]
                                 @@ withTx(fn, FALSE))
    /\ schema' = IF mig[m].pc \in {"executed", "inserted"}
                   THEN Append(schema, [version |-> Version(m), run |-> mig[m].run])
                   ELSE schema
    /\ UNCHANGED <<dir, schema_migrations, runs>>

\* applyMigration did not return nil: run returns the error (or the panic
\* ends the process) and nothing of the transaction is kept.
applyFailed(m, fn) ==
    /\ mig' = [mig EXCEPT ![m] = IdleRun]
    /\ txlog' = Append(txlog, [version |-> Version(m), run |-> mig[m].run]
                                 @@ withTx(fn, FALSE))
    /\ UNCHANGED <<dir, schema_migrations, schema, runs>>

\* run up to ensureSchemaMigrations (CREATE TABLE IF NOT EXISTS); ok is
\* whether the connection and the statement succeed.
runStart(m) ==
    /\ mig[m].pc = "idle"
    /\ runs < MaxRuns
    /\ runs' = runs + 1
    /\ \E ok \in BOOLEAN :
          mig' = [mig EXCEPT ![m] =
                    IF ok THEN [IdleRun EXCEPT !.pc = "ensured", !.run = runs + 1]
                    ELSE IdleRun]
    /\ UNCHANGED <<dir, schema_migrations, schema, txlog>>
    /\ UNCHANGED appVars

\* files, err := readMigrationFiles(migrationsDir)
runReadFiles(m) ==
    /\ mig[m].pc = "ensured"
    /\ \E ok \in BOOLEAN :
          mig' = [mig EXCEPT ![m] =
                    IF ok THEN [@ EXCEPT !.pc = "read", !.files = readMigrationFiles(dir)]
                    ELSE IdleRun]
    /\ UNCHANGED <<dir, schema_migrations, schema, txlog, runs>>
    /\ UNCHANGED appVars

\* applied, err := getAppliedMigrations(ctx, db)
runGetApplied(m) ==
    /\ mig[m].pc = "read"
    /\ \E ok \in BOOLEAN :
          mig' = [mig EXCEPT ![m] =
                    IF ok THEN [@ EXCEPT !.pc = "loop", !.applied = getAppliedMigrations,
                                         !.i = 1]
                    ELSE IdleRun]
    /\ UNCHANGED <<dir, schema_migrations, schema, txlog, runs>>
    /\ UNCHANGED appVars

\* for _, f := range files: skip f when applied[f]; otherwise read the file
\* filepath.Join(migrationsDir, f), which is the file of that name in the top
\* directory, and enter applyMigration, where withTx begins the transaction
\* (ok).
runNext(m) ==
    /\ mig[m].pc = "loop"
    /\ IF mig[m].i > Len(mig[m].files)
         THEN mig' = [mig EXCEPT ![m] = IdleRun]
         ELSE IF Version(m) \in mig[m].applied
           THEN mig' = [mig EXCEPT ![m].i = @ + 1]
           ELSE \E ok \in BOOLEAN :
                  mig' = [mig EXCEPT ![m] =
                            IF ok /\ <<Version(m)>> \in dir THEN [@ EXCEPT !.pc = "begun"]
                            ELSE IdleRun]
    /\ UNCHANGED <<dir, schema_migrations, schema, txlog, runs>>
    /\ UNCHANGED appVars

\* fn: tx.ExecContext(ctx, sqlText)
fnExec(m) ==
    /\ mig[m].pc = "begun"
    /\ \E res \in {"nil", "error", "panic"} :
          IF res = "nil"
            THEN /\ mig' = [mig EXCEPT ![m].pc = "executed"]
                 /\ UNCHANGED <<dir, schema_migrations, schema, txlog, runs>>
            ELSE applyFailed(m, res)
    /\ UNCHANGED appVars

\* fn: INSERT INTO schema_migrations (version) VALUES ($1); a version that
\* is recorded already violates the primary key.
fnInsert(m) ==
    /\ mig[m].pc = "executed"
    /\ \E res \in {"nil", "error"} :
          IF res = "nil" /\ Version(m) \notin schema_migrations
            THEN /\ mig' = [mig EXCEPT ![m].pc = "inserted"]
                 /\ UNCHANGED <<dir, schema_migrations, schema, txlog, runs>>
            ELSE applyFailed(m, "error")
    /\ UNCHANGED appVars

\* fn returned nil: tx.Commit.  The commit fails when the store does or when
\* another transaction has recorded the version in between.
txCommit(m) ==
    /\ mig[m].pc = "inserted"
    /\ \E ok \in BOOLEAN :
          IF ok /\ Version(m) \notin schema_migrations
            THEN /\ schema_migrations' = schema_migrations \cup {Version(m)}
                 /\ schema' = Append(schema, [version |-> Version(m), run |-> mig[m].run])
                 /\ txlog' = Append(txlog, [version |-> Version(m), run |-> mig[m].run]
                                              @@ withTx("nil", TRUE))
                 /\ mig' = [mig EXCEPT ![m] = [@ EXCEPT !.pc = "loop", !.i = @ + 1]]
                 /\ UNCHANGED <<dir, runs>>
            ELSE applyFailed(m, "nil")
    /\ UNCHANGED appVars

\* Migration files are added below the directory.
AddFile ==
    /\ \E added \in LaterFiles : ~(added \subseteq dir) /\ dir' = dir \cup added
    /\ UNCHANGED <<schema_migrations, schema, mig, txlog, runs>>
    /\ UNCHANGED appVars

MigInit ==
    /\ dir = FirstFiles
    /\ schema_migrations = {}
    /\ schema = <<>>
    /\ mig = [m \in Migrators |-> IdleRun]
    /\ txlog = <<>>
    /\ runs = 0

migrate(m) ==
    \/ runStart(m)
    \/ runReadFiles(m)
    \/ runGetApplied(m)
    \/ runNext(m)
    \/ fnExec(m)
    \/ fnInsert(m)
    \/ txCommit(m)

\* ------------------------------------------------------------------------
\* Specifications
\* ------------------------------------------------------------------------
InitWith(envs, uploads) ==
    /\ profiles = <<>>
    /\ votes = {}
    /\ now = 0
    /\ tx = [p \in Procs |-> IdleTx]
    /\ log = <<>>
    /\ inbox \in IF uploads = {} THEN {NoRequest} ELSE {PostProfiles(u) : u \in uploads}
    /\ ingest = NotIngested
    /\ listing = NotListed
    /\ cfg \in {loadConfig(env) : env \in envs}
    /\ MigInit

\* The handlers are alike: an upload is taken by one that is idle.
FreeHandler == CHOOSE p \in Procs : p \notin Active

\* A POST /profiles with one of the uploads us.
CreateProfile(us) ==
    /\ Active # Procs
    /\ \E p \in {FreeHandler}, u \in us, dbok \in BOOLEAN : handleCreateProfile(p, u, dbok)
    /\ UNCHANGED inbox

\* The waiting POST /profiles is served.
ServeUpload ==
    /\ inbox.kind = "POST /profiles"
    /\ Active # Procs
    /\ \E p \in {FreeHandler}, dbok \in BOOLEAN : handleCreateProfile(p, inbox.form, dbok)
    /\ inbox' = NoRequest

\* The waiting GET is served.
ServeHome ==
    /\ inbox.kind = "GET"
    /\ \E dbok \in BOOLEAN :
          handleHome(inbox.path, inbox.q, inbox.page, inbox.page_size, dbok)
    /\ inbox' = NoRequest

VoteStep(p) ==
    \/ VoteBegin(p)
    \/ VoteInsert(p)
    \/ VoteSelect(p)
    \/ VoteUpdate(p)
    \/ VoteCommit(p)
    \/ VoteStoreError(p)

\* The server under concurrent votes.
Init == InitWith({<<>>}, {})
Next ==
    \/ Tick
    \/ CreateProfile({BaseUpload})
    \/ \E p \in Procs : CreateStep(p)
    \/ \E p \in Procs : VoteStep(p)
Spec == Init /\ [][Next]_vars

\* The ingestion pipeline on every upload of IngestUploads.
InitIngest == InitWith({<<>>}, IngestUploads)
NextIngest == ServeUpload \/ \E p \in Procs : CreateStep(p)
SpecIngest == InitIngest /\ [][NextIngest]_vars

\* The listing query over the stores earlier requests can have left: rows
\* 1..n in the order their inserts committed, each created by a POST
\* /profiles with an upload of ListUploads whose transaction began at
\* created_at and, when its score is k > 0, voted for k times by one address
\* at updated_at.
StoredRows ==
    {[NewProfile(u, processImageToWebP(u.img, maxImageWidth, maxStoredImageBytes), c)
        EXCEPT !.updated_at = t, !.votes_count = k] :
        u \in ListUploads,
        c \in {x \in ListTimes : x <= MaxTime},
        t \in {x \in ListTimes : x <= MaxTime},
        k \in 0..MaxScore}

StoredTables ==
    UNION {{tb \in [1..n -> StoredRows] :
               \A i \in 1..n :
                  /\ tb[i].created_at <= tb[i].updated_at
                  /\ tb[i].votes_count = 0 => tb[i].updated_at = tb[i].created_at} :
           n \in 0..MaxProfiles}

StoredVotes(tb) ==
    {[profile_id |-> id, voter_ip |-> "10.0.0.1", created_at |-> tb[id].updated_at] :
        id \in {i \in DOMAIN tb : tb[i].votes_count > 0}}

InitList ==
    /\ profiles \in StoredTables
    /\ votes = StoredVotes(profiles)
    /\ now = MaxTime
    /\ tx = [p \in Procs |-> IdleTx]
    /\ log = <<>>
    /\ ingest = NotIngested
    /\ listing = NotListed
    /\ \E s \in ListSetups : cfg = loadConfig(s.env) /\ inbox = s.req
    /\ MigInit
NextList == ServeHome
SpecList == InitList /\ [][NextList]_vars

\* The migrator, run again and again by two processes while files are added.
InitMigrate == InitWith({<<>>}, {})
NextMigrate == AddFile \/ \E m \in Migrators : migrate(m)
SpecMigrate == InitMigrate /\ [][NextMigrate]_vars

\* The server under votes, uploads, photo retrievals and listings.
ServePhoto ==
    \E id \in {i \in ProfileIds : i <= Cardinality(DOMAIN profiles) + 1},
       dbok \in BOOLEAN :
       \E match \in Matches(id) : servePhoto(id, match, dbok)

ListHome ==
    \E dbok \in BOOLEAN : homeFirstPage(dbok)

InitEntry == InitWith({<<>>}, {})
NextEntry ==
    \/ Advance({WindowDuration})
    \/ CreateProfile({BaseUpload})
    \/ \E p \in Procs : CreateStep(p)
    \/ \E p \in Procs : VoteStep(p)
    \/ ServePhoto
    \/ ListHome
SpecEntry == InitEntry /\ [][NextEntry]_vars

\* ------------------------------------------------------------------------
\* Properties
\* ------------------------------------------------------------------------
Last(s) == s[Len(s)]
VoteIdx(id) == {i \in 1..Len(log) : log[i].op = "vote" /\ log[i].id = id}
Accepted(i) == log[i].status = StatusSeeOther
StoreFailed(i) == log[i].status = StatusInternalServerError
\* Request j was issued after request i was answered.
OneAfterTheOther(i, j) == i < j /\ log[j].start >= i
NoWrites(i) ==
    log[i].after = log[i].before /\ log[i].rows_after = log[i].rows_before

\* C1: of two votes for one Entry issued one after the other less than
\* windowDuration apart, the first (on an Entry without votes) is accepted and
\* adds exactly 1 to the score, and the second is answered 429 and writes
\* nothing (storage errors aside).
C1_SecondVoteInWindowRateLimited ==
    \A id \in ProfileIds : \A i, j \in VoteIdx(id) :
        (/\ OneAfterTheOther(i, j)
         /\ log[j].at - log[i].at < WindowDuration
         /\ log[i].rows_before = 0
         /\ ~StoreFailed(i) /\ ~StoreFailed(j))
        => /\ Accepted(i) /\ log[i].after = log[i].before + 1
           /\ log[j].status = StatusTooManyRequests
           /\ NoWrites(j)

\* C2: when K votes for a fresh Entry are launched at the same time and all
\* have been answered, exactly one was accepted, the others were answered
\* 429, and the score is 1 (0 when K = 0), storage errors aside.
C2_ConcurrentVotesOneAccepted ==
    \A id \in DOMAIN profiles :
        LET K == VoteIdx(id)
            acc == {i \in K : Accepted(i)}
            lim == {i \in K : log[i].status = StatusTooManyRequests}
        IN  (/\ \A p \in Procs : tx[p].pc # "idle" => tx[p].id # id
             /\ \A i, j \in K : log[i].at = log[j].at
             /\ \A i \in K : ~StoreFailed(i))
            => /\ Cardinality(acc) = (IF K = {} THEN 0 ELSE 1)
               /\ Cardinality(lim) = (IF K = {} THEN 0 ELSE Cardinality(K) - 1)
               /\ profiles[id].votes_count = (IF K = {} THEN 0 ELSE 1)

\* C3: any two vote rows of one Entry are at least windowDuration apart.
C3_VoteRowsWindowApart ==
    \A v1, v2 \in votes :
        (v1 # v2 /\ v1.profile_id = v2.profile_id)
        => \/ v1.created_at - v2.created_at >= WindowDuration
           \/ v2.created_at - v1.created_at >= WindowDuration

\* C4: a vote answered while a vote row of its Entry lies within the window
\* is answered 429, never with the redirect of an accepted vote (a storage
\* error is answered 500).
C4_RateLimitedAnswered429 ==
    [][(/\ Len(log') = Len(log) + 1
        /\ Last(log').op = "vote"
        /\ \E v \in votes : /\ v.profile_id = Last(log').id
                            /\ v.created_at > Last(log').at - WindowDuration)
       => Last(log').status \in {StatusTooManyRequests, StatusInternalServerError}]_vars

\* C5: two votes for one Entry issued one after the other more than
\* windowDuration apart are both accepted unless the store fails, each adds
\* exactly 1 to the score, and with no other accepted vote for the Entry in
\* between the score grows by exactly 2 in total.
C5_VotesOutsideWindowBothAccepted ==
    \A id \in ProfileIds : \A i, j \in VoteIdx(id) :
        (/\ OneAfterTheOther(i, j)
         /\ log[j].at - log[i].at > WindowDuration
         /\ ~StoreFailed(i) /\ ~StoreFailed(j))
        => /\ Accepted(i) /\ log[i].after = log[i].before + 1
           /\ Accepted(j) /\ log[j].after = log[j].before + 1
           /\ (\A k \in VoteIdx(id) : (i < k /\ k < j) => ~Accepted(k))
                 => log[j].after = log[i].before + 2

C5_Witness ==
    \E id \in DOMAIN profiles : \E i, j \in VoteIdx(id) :
        /\ OneAfterTheOther(i, j)
        /\ log[j].at - log[i].at > WindowDuration
        /\ Accepted(i) /\ Accepted(j)
        /\ log[i].ip = log[j].ip
        /\ profiles[id].votes_count = 2

\* C6: a call of processImageToWebP that returns no error returns at most
\* maxBytes bytes, whichever quality produced them, and every stored photo
\* has at most maxStoredImageBytes bytes.
C6_IngestWithinBudget ==
    /\ (ingest.called /\ ingest.res.err = "") => ingest.res.len <= ingest.maxBytes
    /\ \A id \in DOMAIN profiles : profiles[id].photo_len <= maxStoredImageBytes

C6_Witness ==
    /\ ingest.called /\ ingest.res.err = ""
    /\ Last(ingest.res.tried) = QualityFinal
    /\ ingest.res.len = maxStoredImageBytes
    /\ \E id \in DOMAIN profiles : profiles[id].photo_len = maxStoredImageBytes

\* C7: when the final encode at quality 35 is larger than maxBytes the call
\* returns the cannot-fit error with nil bytes and an empty content type, and
\* handleCreateProfile answers 400 and inserts no row.
C7_CannotFitNoOutput ==
    (/\ ingest.called
     /\ ingest.res.tried # <<>>
     /\ Last(ingest.res.tried) = QualityFinal
     /\ ingest.input.enc[QualityFinal] > ingest.maxBytes)
    => /\ ingest.res.err = ErrCannotFit
       /\ ingest.res.isNil /\ ingest.res.len = 0 /\ ingest.res.contentType = ""
       /\ profiles = <<>>
       /\ Last(log).op = "create" /\ Last(log).status = StatusBadRequest

C7_Witness ==
    /\ ingest.called
    /\ Len(ingest.res.tried) = Cardinality(Qualities)
    /\ ingest.input.enc[QualityFinal] > ingest.maxBytes
    /\ ingest.res.err = ErrCannotFit
    /\ inbox = NoRequest

\* round(a / b) for positive integers, halves up.
RoundDiv(a, b) == (2 * a + b) \div (2 * b)

\* C8: an image wider than maxWidth reaches the encoder with width maxWidth
\* and a height within 1 pixel of round(h * maxWidth / w).
C8_ResizeKeepsAspect ==
    (ingest.called /\ ingest.input.decodes /\ ingest.input.w > ingest.maxWidth)
    => /\ ingest.res.w = ingest.maxWidth
       /\ ingest.res.h - RoundDiv(ingest.input.h * ingest.maxWidth, ingest.input.w) \in {-1, 0, 1}

C8_Witness ==
    /\ ingest.called /\ ingest.input.decodes /\ ingest.input.w > ingest.maxWidth
    /\ ingest.res.resized
    /\ ingest.res.h # ingest.input.h
    /\ ingest.res.h + 1 = RoundDiv(ingest.input.h * ingest.maxWidth, ingest.input.w)
    /\ ingest.res.err = ""

\* C9: an image narrower than maxWidth is not resized: resizeNearest is not
\* called and the encoder gets the input's width and height.
C9_NarrowNotResized ==
    (ingest.called /\ ingest.input.decodes /\ ingest.input.w < ingest.maxWidth)
    => /\ ~ingest.res.resized
       /\ ingest.res.w = ingest.input.w
       /\ ingest.res.h = ingest.input.h

C9_Witness ==
    /\ ingest.called /\ ingest.input.decodes
    /\ ingest.input.w = ingest.maxWidth - 1
    /\ ~ingest.res.resized
    /\ ingest.res.err = ""

\* C10: the rows a listing returns are in order of score, highest first, and
\* among equal scores in order of createdAt, newest first, with a search
\* filter and without one.
C10_ListingOrdered ==
    (listing.called /\ listing.status = StatusOK)
    => \A i, j \in 1..Len(listing.rows) :
          i < j => /\ listing.rows[i].Votes >= listing.rows[j].Votes
                   /\ listing.rows[i].Votes = listing.rows[j].Votes
                        => listing.rows[i].CreatedAt >= listing.rows[j].CreatedAt

C10_Witness ==
    /\ listing.called /\ listing.status = StatusOK
    /\ listing.q # <<>>
    /\ Len(listing.rows) = 2
    /\ listing.rows[1].Votes = listing.rows[2].Votes
    /\ listing.rows[1].CreatedAt > listing.rows[2].CreatedAt
    /\ listing.rows[1].ID > listing.rows[2].ID

\* s contains sub as a run of consecutive characters.
Occurs(sub, s) ==
    \E i \in 0..(Len(s) - Len(sub)) : SubSeq(s, i + 1, i + Len(sub)) = sub

\* The token occurs, whatever the case of the letters, in one of the four
\* text fields of the row.
InField(q, row) ==
    \E f \in {row.full_name, row.location_country, row.location_city, row.description} :
        Occurs(ToLower(q), ToLower(f))

ListedIds == {listing.rows[i].ID : i \in 1..Len(listing.rows)}

\* C11: a filtered listing that is not cut by paging, and whose result set
\* the store delivered whole, includes every Entry that has the token,
\* case-insensitively, in its name, country, city or description, and is
\* empty when no Entry has the token in any of the four fields, for every
\* token, '%' and '_' included.
C11_SearchBySubstring ==
    (/\ listing.called /\ listing.status = StatusOK
     /\ listing.missed = 0
     /\ listing.q # <<>>
     /\ listing.offset.limbs = WideZero
     /\ listing.size >= Cardinality(DOMAIN profiles))
    => /\ \A id \in DOMAIN profiles :
             InField(listing.q, profiles[id]) => id \in ListedIds
       /\ (\A id \in DOMAIN profiles : ~InField(listing.q, profiles[id]))
             => listing.rows = <<>>

\* C12: whatever page, page_size and LEADERBOARD_PAGE_SIZE_DEFAULT are, the
\* listing query is issued with a LIMIT within 1..maxPageSize and with an
\* OFFSET that is the product (page-1)*size: not negative and not wrapped.
C12_ListingWindowBounded ==
    (listing.called /\ listing.issued)
    => /\ listing.size \in 1..maxPageSize
       /\ listing.page \in 1..maxPage
       /\ ~listing.offset.negative
       /\ listing.offset.carry = 0
       /\ listing.page <= WideBase
            => listing.offset.limbs =
                  Int64((listing.page - 1) * listing.size).mag

C12_Witness ==
    /\ listing.called /\ listing.issued /\ listing.status = StatusOK
    /\ listing.page = maxPage
    /\ listing.size = maxPageSize
    /\ listing.offset.limbs[3] > 0
    /\ listing.rows = <<>>

\* C13: an Entry's score is 0 when the Entry is created and no step of the
\* server, whether it creates a profile or accepts or fails a vote, makes
\* it smaller or negative.
C13_ScoreNeverDecreases ==
    [][/\ \A id \in DOMAIN profiles :
             /\ id \in DOMAIN profiles'
             /\ profiles'[id].votes_count >= profiles[id].votes_count
       /\ \A id \in DOMAIN profiles' :
             /\ profiles'[id].votes_count >= 0
             /\ id \notin DOMAIN profiles => profiles'[id].votes_count = 0]_vars

C13_Witness ==
    \E id \in DOMAIN profiles : \E i, j \in VoteIdx(id) :
        /\ i < j
        /\ StoreFailed(i) /\ Accepted(j)
        /\ log[j].before = 0 /\ profiles[id].votes_count = 1

\* C16: the admissibility test of a vote is castAt > now - windowDuration on
\* the most recent vote row of its Entry, strictly greater: a vote cast
\* exactly windowDuration after that row is outside the window and is
\* accepted, adding 1 to the score, and a vote cast less than windowDuration
\* after it is inside the window and is not accepted (storage errors aside).
C16_WindowTestStrictlyGreater ==
    \A i \in 1..Len(log) :
        (/\ log[i].op = "vote"
         /\ log[i].latest >= 0
         /\ ~StoreFailed(i))
        => /\ log[i].latest = log[i].at - WindowDuration
                 => Accepted(i) /\ log[i].after = log[i].before + 1
           /\ Accepted(i) <=> ~(log[i].latest > log[i].at - WindowDuration)

\* The request of worker p is answered in this step.
Answered(p) ==
    tx[p].pc \in {"begun", "inserted", "selected", "updated"} /\ tx'[p].pc = "idle"

\* C17: a vote whose transaction meets a conflict or another store error is
\* answered 500, never with the redirect of an accepted vote nor with 429;
\* every vote request runs exactly one transaction; and a vote that is not
\* answered with the redirect leaves the vote rows and the scores as they
\* were.
C17_StoreErrorsSurfaced ==
    [][\A p \in Procs :
          Answered(p) =>
             LET e == Last(log')
                 conflict == tx[p].pc = "updated" /\ tx[p].touched \cap tx[p].stale # {}
                 unfinished == tx[p].pc # "updated"
             IN  /\ Len(log') = Len(log) + 1
                 /\ e.op = "vote" /\ e.id = tx[p].id
                 /\ e.attempts = 1
                 /\ (conflict \/ unfinished) => e.status = StatusInternalServerError
                 /\ e.status # StatusSeeOther =>
                       /\ e.status = StatusInternalServerError
                       /\ profiles' = profiles /\ votes' = votes]_vars

C17_Witness ==
    \E i, j \in 1..Len(log) :
        /\ i < j
        /\ log[i].op = "vote" /\ log[j].op = "vote" /\ log[i].id = log[j].id
        /\ log[j].start < i
        /\ Accepted(i) /\ StoreFailed(j)
        /\ NoWrites(j)
        /\ log[j].attempts = 1

\* C19: only an accepted vote creates a vote row, every accepted vote that
\* adds 1 to the score creates exactly one vote row of the Entry, and each
\* Entry's score equals the number of its vote rows.
C19_ScoreEqualsVoteRows ==
    /\ \A i \in 1..Len(log) :
          log[i].op = "vote" =>
             /\ log[i].rows_after # log[i].rows_before => Accepted(i)
             /\ (Accepted(i) /\ log[i].after = log[i].before + 1)
                   => log[i].rows_after = log[i].rows_before + 1
    /\ \A id \in DOMAIN profiles :
          profiles[id].votes_count = Cardinality(VotesOf(votes, id))

\* C14: a call of processImageToWebP that returns no error returns the
\* content type image/jpeg with bytes that jpeg.Encode wrote, whatever the
\* format of the upload and the type its client declared, and every stored
\* row has photo_content_type image/jpeg over JPEG bytes.
C14_ContentTypeIsJpeg ==
    /\ (ingest.called /\ ingest.res.err = "")
          => ingest.res.contentType = "image/jpeg" /\ ingest.res.encoding = "jpeg"
    /\ \A id \in DOMAIN profiles :
          /\ profiles[id].photo_content_type = "image/jpeg"
          /\ profiles[id].photo_encoding = "jpeg"

C14_Witness ==
    /\ ingest.called /\ ingest.res.err = ""
    /\ ingest.input.format = "png"
    /\ log # <<>>
    /\ Last(log).declared = "image/webp"
    /\ \E id \in DOMAIN profiles : profiles[id].photo_content_type = "image/jpeg"

\* C18: a POST /profiles whose photo has more than maxUploadAcceptBytes
\* bytes is answered with a 4xx status, does not reach processImageToWebP
\* and stores no row; a photo of at most maxUploadAcceptBytes in an
\* otherwise acceptable form is handed to processImageToWebP.
C18_UploadCeiling ==
    [][(inbox.kind = "POST /profiles" /\ inbox' = NoRequest) =>
          LET u == inbox.form
              acceptable ==
                  /\ u.method = "POST" /\ u.formOK /\ u.hasPhoto /\ u.readOK
                  /\ TrimSpace(u.full_name) # <<>> /\ TrimSpace(u.country) # <<>>
                  /\ TrimSpace(u.city) # <<>>
                  /\ ByteLen(TrimSpace(u.description)) <= maxDescriptionLen
          IN  /\ (u.hasPhoto /\ u.size > maxUploadAcceptBytes)
                    => /\ Last(log').status \in 400..499
                       /\ ~ingest'.called
                       /\ profiles' = profiles
              /\ (acceptable /\ u.size <= maxUploadAcceptBytes)
                    => /\ ingest'.called
                       /\ ingest'.input = u.img]_vars

C18_Witness ==
    /\ inbox = NoRequest
    /\ log # <<>>
    /\ Last(log).op = "create" /\ Last(log).size = maxUploadAcceptBytes + 1
    /\ Last(log).status = StatusBadRequest
    /\ ~ingest.called
    /\ profiles = <<>>

\* C15: no migration is committed twice, a migration is committed only while
\* its version is not recorded in schema_migrations, and the migrations one
\* run commits follow each other in ascending order of their file names.
C15_MigrationsOnceInOrder ==
    /\ \A i, j \in 1..Len(schema) :
          i < j => /\ schema[i].version # schema[j].version
                   /\ schema[i].run = schema[j].run
                        => StrLess(schema[i].version, schema[j].version)
    /\ \A i \in 1..Len(schema) : schema[i].version \in schema_migrations
    /\ \A m \in Migrators :
          mig[m].pc = "begun" => Version(m) \notin mig[m].applied

C15_Witness ==
    /\ Len(schema) = 3
    /\ schema[1].run = 1 /\ schema[2].run = 1 /\ schema[3].run = 2
    /\ schema[3].version = <<"1", "0", ".", "s", "q", "l">>
    /\ runs = 2
    /\ \A m \in Migrators : mig[m].pc = "idle"

\* C20: every call of withTx that began a transaction issued exactly one of
\* Commit and Rollback on it: Commit when fn returned nil, Rollback when fn
\* returned an error, which withTx returns, or panicked, which withTx raises
\* again; withTx returned nil only when the commit succeeded; and what is
\* committed is whole: a migration's SQL together with its version.
C20_CommitOrRollbackOnce ==
    /\ \A k \in 1..Len(txlog) :
          LET e == txlog[k] IN
          /\ Len(e.calls) = 1
          /\ e.calls = <<"Commit">> <=> e.fn = "nil"
          /\ e.calls = <<"Rollback">> <=> e.fn \in {"error", "panic"}
          /\ e.fn \in {"error", "panic"} => e.ret = e.fn /\ ~e.committed
          /\ e.ret = "nil" <=> e.committed
    /\ {schema[i].version : i \in 1..Len(schema)} = schema_migrations
    /\ Len(schema) = Cardinality({k \in 1..Len(txlog) : txlog[k].committed})

C20_Witness ==
    \E i, j, k \in 1..Len(txlog) :
        /\ txlog[i].fn = "nil" /\ txlog[i].ret = "nil"
        /\ txlog[j].fn = "nil" /\ txlog[j].ret = "error" /\ txlog[j].calls = <<"Commit">>
        /\ txlog[k].fn = "panic" /\ txlog[k].calls = <<"Rollback">>
        /\ Len(schema) = 1

\* The qualities in the order the search visits them: 80, 75, ..., 40, 35.
QualityOrder ==
    [i \in 1..Cardinality(Qualities) |->
        IF i < Cardinality(Qualities)
          THEN QualityStart - (i - 1) * QualityStep ELSE QualityFinal]

\* C21: a call of processImageToWebP on a decodable image encodes at the
\* qualities 80, 75, ..., 40, 35 in that order and stops at the first whose
\* encoding has at most maxBytes bytes: every quality tried before the last
\* one was too large, a result is the encoding at the last quality tried, the
\* cannot-fit failure comes only after all ten were too large, and no call
\* makes more than ten encodes.
C21_GreedyDownwardSearch ==
    (ingest.called /\ ingest.input.decodes)
    => LET t == ingest.res.tried
           n == Len(t)
           enc == ingest.input.enc
       IN  /\ n >= 1 /\ n <= Cardinality(Qualities)
           /\ \A i \in 1..n : t[i] = QualityOrder[i]
           /\ \A i \in 1..(n - 1) : enc[t[i]] > ingest.maxBytes
           /\ ingest.res.err = ""
                 => /\ enc[t[n]] <= ingest.maxBytes
                    /\ ingest.res.len = enc[t[n]]
                    /\ ~ingest.res.isNil
           /\ ingest.res.err # "" => ingest.res.err \in {ErrEncode, ErrCannotFit}
           /\ ingest.res.err = ErrCannotFit
                 => /\ n = Cardinality(Qualities)
                    /\ enc[t[n]] > ingest.maxBytes
           /\ ingest.res.err = ErrEncode => n = 1

C21_Witness ==
    /\ ingest.called /\ ingest.input.decodes
    /\ ingest.res.err = ""
    /\ ingest.res.tried = <<QualityStart, QualityStart - QualityStep,
                            QualityStart - 2 * QualityStep>>
    /\ ingest.input.enc[QualityFinal] <= ingest.maxBytes
    /\ ingest.input.enc[QualityFloor] > ingest.maxBytes
    /\ \E id \in DOMAIN profiles : profiles[id].photo_len = ingest.res.len

\* C22: a step changes a stored row exactly when it commits an accepted vote
\* for it, and then it adds 1 to votes_count and sets updated_at to the time
\* of the vote's transaction, leaving the rest of the row as it was; every
\* accepted vote does so; a failed vote, an upload, a listing and a photo
\* retrieval leave every stored row, its id included, as it was; and every
\* row has updated_at >= created_at.
C22_UpdatedAtFollowsScore ==
    [][/\ \A id \in DOMAIN profiles :
             LET e == Last(log')
                 accepted == /\ Len(log') = Len(log) + 1
                             /\ e.op = "vote" /\ e.id = id
                             /\ e.status = StatusSeeOther
             IN  /\ id \in DOMAIN profiles'
                 /\ accepted =>
                       profiles'[id] = [profiles[id] EXCEPT !.votes_count = @ + 1,
                                                           !.updated_at = e.at]
                 /\ ~accepted => profiles'[id] = profiles[id]
       /\ \A id \in DOMAIN profiles' :
             /\ profiles'[id].updated_at >= profiles'[id].created_at
             /\ id \notin DOMAIN profiles
                   => profiles'[id].updated_at = profiles'[id].created_at]_vars

C22_Witness ==
    \E id \in DOMAIN profiles : \E j, k \in 1..Len(log) :
        /\ j < k /\ k = Len(log)
        /\ log[j].op = "vote" /\ log[j].id = id /\ Accepted(j)
        /\ log[j].at > profiles[id].created_at
        /\ profiles[id].updated_at = log[j].at
        /\ profiles[id].votes_count = 1
        /\ log[k].op = "photo" /\ log[k].id = id /\ log[k].status = StatusOK
        /\ listing.called /\ listing.op = "photo"
        /\ listing.etag = ETag(id, profiles[id].updated_at)

\* What C23 states of every step but the fate of a file whose migration
\* failed: a step leaves schema_migrations and the committed SQL as they were
\* or adds one migration to both, which is what a successful applyMigration
\* does and a failed one never does; the versions recorded are those of the
\* migrations whose SQL is committed; and a run makes no transaction after
\* one of its transactions has failed.
AllOrNothingStep ==
    LET grew == Len(txlog') = Len(txlog) + 1
        e == Last(txlog')
    IN  /\ \/ schema_migrations' = schema_migrations /\ schema' = schema
           \/ /\ grew /\ e.committed
              /\ e.version \notin schema_migrations
              /\ schema_migrations' = schema_migrations \cup {e.version}
              /\ schema' = Append(schema, [version |-> e.version, run |-> e.run])
        /\ (grew /\ e.committed) => schema' # schema
        /\ (grew /\ ~e.committed)
              => /\ schema_migrations' = schema_migrations /\ schema' = schema
                 /\ \A m \in Migrators : mig'[m].run # e.run
        /\ {schema'[i].version : i \in 1..Len(schema')} = schema_migrations'
        /\ \A k, l \in 1..Len(txlog') :
              (k < l /\ txlog'[k].run = txlog'[l].run) => txlog'[k].committed

\* C23 as stated: each migration is all-or-nothing, a run stops at the first
\* file that fails, and the file whose migration failed is pending (its
\* version is not recorded) when the run has stopped.
C23_FailedFileStaysPending ==
    [][/\ AllOrNothingStep
       /\ (Len(txlog') = Len(txlog) + 1 /\ ~Last(txlog').committed)
             => Last(txlog').version \notin schema_migrations']_vars

\* C23, amended: each migration is all-or-nothing, a run stops at the first
\* file that fails, and the file whose migration failed is pending when the
\* run has stopped unless a transaction has committed it since the run read
\* schema_migrations: a transaction of another run, or an earlier transaction
\* of the same run when the run's list of files holds the name more than once.
C23_MigrationAllOrNothing ==
    [][/\ AllOrNothingStep
       /\ (Len(txlog') = Len(txlog) + 1 /\ ~Last(txlog').committed)
             => \/ Last(txlog').version \notin schema_migrations'
                \/ \E i \in 1..Len(schema'), m \in Migrators :
                      /\ schema'[i].version = Last(txlog').version
                      /\ mig[m].run = Last(txlog').run
                      /\ Last(txlog').version \notin mig[m].applied
                      /\ \/ schema'[i].run # mig[m].run
                         \/ /\ schema'[i].run = mig[m].run
                            /\ \E k, l \in 1..Len(mig[m].files) :
                                  /\ k < l /\ l = mig[m].i
                                  /\ mig[m].files[k] = mig[m].files[l]
                                  /\ mig[m].files[l] = Last(txlog').version]_vars

\* Two runs meet on one file: one commits it and the other fails on it; the
\* run that committed goes on, commits the next file and fails on that file
\* again, whose name its list holds twice.
C23_Witness ==
    \E i, j, k, l \in 1..Len(txlog) :
        /\ i < j /\ j < k /\ k < l
        /\ txlog[i].committed /\ ~txlog[j].committed
        /\ txlog[i].version = txlog[j].version /\ txlog[i].run # txlog[j].run
        /\ txlog[j].fn = "nil"
        /\ txlog[k].committed /\ ~txlog[l].committed
        /\ txlog[k].run = txlog[i].run /\ txlog[l].run = txlog[i].run
        /\ txlog[k].version = txlog[l].version
        /\ txlog[l].version \in schema_migrations
        /\ Len(schema) = 2
        /\ \A m \in Migrators : mig[m].pc = "idle"

====
